---- MODULE Spec2Model ----
(***************************************************************************)
(* Model of dda_maths.c: the integer arithmetic kernel of the DDA.         *)
(*                                                                         *)
(* Every routine is a pure function of its arguments.  A behaviour of the  *)
(* model is one call: Init draws the routine (fn) and its actual           *)
(* parameters (arg), one action runs per loop iteration or per             *)
(* straight-line routine, and ret holds the returned value once            *)
(* pc = "done".                                                            *)
(*                                                                         *)
(* Machine words.  The model checker's integers are narrower than          *)
(* uint32_t, so a C value of width 8*n bits is held as the sequence of     *)
(* its n bytes, least significant first (a uint32_t is <<b0,b1,b2,b3>>),   *)
(* and an int32_t as its two's complement bit pattern.  Values that are    *)
(* at most 24 bits wide in the code (uint8_t, uint16_t and the q of        *)
(* int_inv_sqrt) are plain integers, truncated with % where the code       *)
(* stores them into a narrower variable.                                   *)
(***************************************************************************)
EXTENDS Integers, Sequences, FiniteSets

VARIABLES fn, pc, arg, loc, ret

vars == <<fn, pc, arg, loc, ret>>

(***************************************************************************)
(* Byte-sequence arithmetic                                                *)
(***************************************************************************)

Max(m, n) == IF m >= n THEN m ELSE n

\* Byte k (1 = least significant) of a, zero beyond its length.
Digit(a, k) == IF k <= Len(a) THEN a[k] ELSE 0

\* The n low bytes of the integer v.
RECURSIVE Bytes(_, _)
Bytes(v, n) == IF n = 0 THEN <<>> ELSE <<v % 256>> \o Bytes(v \div 256, n - 1)

\* Conversion to a width of n bytes: C's truncating or zero-extending cast.
RECURSIVE TruncFrom(_, _, _)
TruncFrom(a, k, n) == IF k > n THEN <<>> ELSE <<Digit(a, k)>> \o TruncFrom(a, k + 1, n)

Trunc(a, n) == TruncFrom(a, 1, n)

\* The uint32_t whose high half-word is hi and whose low half-word is lo.
U32(hi, lo) == Bytes(lo, 2) \o Bytes(hi, 2)

\* The value of a byte sequence short enough (3 bytes) to be an integer.
RECURSIVE Val(_)
Val(a) == IF Len(a) = 0 THEN 0 ELSE Head(a) + 256 * Val(Tail(a))

IsZero(a) == \A k \in 1..Len(a) : a[k] = 0

RECURSIVE AddFrom(_, _, _, _, _)
AddFrom(a, b, k, n, carry) ==
  IF k > n THEN <<carry>>
  ELSE LET s == Digit(a, k) + Digit(b, k) + carry
       IN  <<s % 256>> \o AddFrom(a, b, k + 1, n, s \div 256)

\* a + b, exact: one byte longer than the longer operand.
BAdd(a, b) == AddFrom(a, b, 1, Max(Len(a), Len(b)), 0)

RECURSIVE SubFrom(_, _, _, _, _)
SubFrom(a, b, k, n, borrow) ==
  IF k > n THEN <<>>
  ELSE LET d == Digit(a, k) - Digit(b, k) - borrow
       IN  <<(d + 256) % 256>> \o SubFrom(a, b, k + 1, n, IF d < 0 THEN 1 ELSE 0)

\* a - b modulo 256^n.
BSub(a, b, n) == SubFrom(a, b, 1, n, 0)

RECURSIVE CmpFrom(_, _, _)
CmpFrom(a, b, k) ==
  IF k = 0 THEN 0
  ELSE IF Digit(a, k) > Digit(b, k) THEN 1
  ELSE IF Digit(a, k) < Digit(b, k) THEN -1
  ELSE CmpFrom(a, b, k - 1)

\* Unsigned comparison of two byte sequences of any lengths.
BLt(a, b) == CmpFrom(a, b, Max(Len(a), Len(b))) < 0
BLe(a, b) == CmpFrom(a, b, Max(Len(a), Len(b))) <= 0

RECURSIVE MulDigitFrom(_, _, _, _)
MulDigitFrom(a, d, k, carry) ==
  IF k > Len(a) THEN <<carry>>
  ELSE LET p == a[k] * d + carry
       IN  <<p % 256>> \o MulDigitFrom(a, d, k + 1, p \div 256)

\* a * b, exact: Len(a) + Len(b) bytes.
RECURSIVE BMulRec(_, _)
BMulRec(a, b) ==
  IF Len(b) = 0 THEN <<>>
  ELSE BAdd(MulDigitFrom(a, Head(b), 1, 0), <<0>> \o BMulRec(a, Tail(b)))

BMul(a, b) == Trunc(BMulRec(a, b), Len(a) + Len(b))

\* Bit i (0 = least significant) of a.
Bit(a, i) == (Digit(a, (i \div 8) + 1) \div (2 ^ (i % 8))) % 2

\* a >> 1, zero shifted in at the top.
RECURSIVE ShrFrom(_, _)
ShrFrom(a, k) ==
  IF k > Len(a) THEN <<>>
  ELSE <<(a[k] \div 2) + 128 * (Digit(a, k + 1) % 2)>> \o ShrFrom(a, k + 1)

Shr1(a) == ShrFrom(a, 1)

\* Restoring long division, one quotient bit per step from bit i down to 0;
\* the pair <<quotient, remainder>> of a / b for 32-bit a and b # 0.
\* (Both partial results are compared at every step, so that each is
\* evaluated when it is formed.)
RECURSIVE DivStep(_, _, _, _, _)
DivStep(a, b, i, q, r) ==
  IF i < 0 THEN <<q, r>>
  ELSE LET r2 == Trunc(BAdd(BAdd(r, r), Bytes(Bit(a, i), 1)), 5)
           sub == BLe(b, r2)
           q2 == Trunc(BAdd(BAdd(q, q), Bytes(IF sub THEN 1 ELSE 0, 1)), 4)
           r3 == IF sub THEN BSub(r2, b, 5) ELSE r2
       IN  IF Len(q2) = 4 /\ Len(r3) = 5 THEN DivStep(a, b, i - 1, q2, r3) ELSE <<q2, r3>>

\* Schoolbook long division of the k low bytes of a by an integer b < 2^23,
\* one quotient byte per step from the top byte down; r is the running
\* remainder (r < b, so r * 256 + a[k] < 2^31).
RECURSIVE LongDiv(_, _, _, _)
LongDiv(a, k, b, r) ==
  IF k = 0 THEN <<>>
  ELSE LET cur == r * 256 + a[k]
       IN  LongDiv(a, k - 1, b, cur % b) \o <<cur \div b>>

\* a / b on uint32_t, b # 0.
Div32(a, b) ==
  IF b[4] = 0 /\ b[3] < 128 THEN LongDiv(a, 4, Val(b), 0)
  ELSE DivStep(a, b, 31, Bytes(0, 4), Bytes(0, 5))[1]

\* Bitwise operators on non-negative integers.
RECURSIVE BitAnd(_, _)
BitAnd(x, y) ==
  IF x = 0 \/ y = 0 THEN 0
  ELSE (x % 2) * (y % 2) + 2 * BitAnd(x \div 2, y \div 2)

RECURSIVE BitOr(_, _)
BitOr(x, y) ==
  IF x = 0 THEN y ELSE IF y = 0 THEN x
  ELSE Max(x % 2, y % 2) + 2 * BitOr(x \div 2, y \div 2)

RECURSIVE BitXor(_, _)
BitXor(x, y) ==
  IF x = 0 THEN y ELSE IF y = 0 THEN x
  ELSE ((x + y) % 2) + 2 * BitXor(x \div 2, y \div 2)

(***************************************************************************)
(* 32-bit machine operations                                               *)
(***************************************************************************)

\* uint32_t addition and its carry out of bit 31.
Add32(a, b) == Trunc(BAdd(a, b), 4)
Carry32(a, b) == BAdd(a, b)[5] # 0

Sub32(a, b) == BSub(a, b, 4)

\* x <<= 1 on a uint32_t.
Shl32(a) == Add32(a, a)

\* int32_t: sign bit and two's complement negation of the bit pattern.
IsNeg32(a) == a[4] >= 128
Neg32(a) == BSub(Bytes(0, 4), a, 4)
INT32_MIN == U32(32768, 0)

\* |v| of an int32_t bit pattern, as a uint32_t (2^31 for INT32_MIN).
Abs32(v) == IF IsNeg32(v) THEN Neg32(v) ELSE v

\* x >>= 1 on an int32_t: the sign bit is shifted in (arithmetic shift).
Sar32(a) == [Shr1(a) EXCEPT ![4] = @ + (IF IsNeg32(a) THEN 128 ELSE 0)]

(***************************************************************************)
(* muldivQR (lines 36-71)                                                  *)
(*                                                                         *)
(* loc holds the routine's parameters (which the loop overwrites) and      *)
(* locals under their names in the source, the right-shift instruction     *)
(* the build applies to multiplicand (shr), and three history fields that  *)
(* the code does not have: iters counts the executions of the loop body,   *)
(* addOvf records that an addition into quotient or remainder carried out  *)
(* of 32 bits, shlOvf that a doubling of qn or rn did and was followed by  *)
(* a further iteration, which reads the doubled value.                     *)
(***************************************************************************)

\* The loop is followed for at most this many iterations.
MaxIters == 34

Zero32 == Bytes(0, 4)
One32 == Bytes(1, 4)

\* Multiplicands, as int32_t bit patterns.
MuldivMultiplicands ==
  { U32(0, 0), U32(0, 1), U32(0, 2), U32(0, 3), U32(0, 6), U32(1, 0),
    U32(16384, 1), U32(32767, 65535),
    U32(65535, 65535), U32(65535, 65534), U32(65535, 65533),
    U32(32768, 1), INT32_MIN }

MuldivQuotients ==
  { U32(0, 0), U32(0, 1), U32(0, 2), U32(0, 3), U32(0, 65535), U32(32767, 65535) }

MuldivRemainders ==
  { U32(0, 0), U32(0, 1), U32(0, 2), U32(0, 5),
    U32(32767, 65535), U32(32768, 0), U32(49151, 65535) }

MuldivDivisors ==
  { U32(0, 1), U32(0, 2), U32(0, 3), U32(0, 7), U32(1, 0),
    U32(32768, 0), U32(49152, 0), U32(65535, 65535) }

\* The multiplier a (qn, rn, divisor) triple stands for, exact.
Multiplier(a) == BAdd(BMul(a.qn, a.divisor), a.rn)

\* Calls the caller can make: qn and rn are the quotient and remainder of
\* a 32-bit multiplier by a non-zero divisor (0 <= rn < divisor).
MuldivArgs ==
  { a \in [multiplicand : MuldivMultiplicands, qn : MuldivQuotients,
           rn : MuldivRemainders, divisor : MuldivDivisors] :
      /\ BLt(a.rn, a.divisor)
      /\ IsZero(SubSeq(Multiplier(a), 5, 9)) }

\* Lines 38-45.  -multiplicand overflows for INT32_MIN (undefined
\* behaviour): the negate instruction leaves the bit pattern unchanged, and
\* the build either keeps treating it as the negative int32_t it is
\* (arithmetic right shift) or, having inferred multiplicand > 0, shifts
\* it as an unsigned value.
muldivQR_entry ==
  /\ fn = "muldivQR" /\ pc = "entry"
  /\ \E shr \in (IF arg.multiplicand = INT32_MIN THEN {"sar", "shr"} ELSE {"sar"}) :
       loc' = [multiplicand |-> IF IsNeg32(arg.multiplicand)
                                THEN Neg32(arg.multiplicand) ELSE arg.multiplicand,
               qn |-> arg.qn, rn |-> arg.rn, divisor |-> arg.divisor,
               quotient |-> Zero32, remainder |-> Zero32,
               negative_flag |-> IF IsNeg32(arg.multiplicand) THEN 1 ELSE 0,
               shr |-> shr, iters |-> 0, addOvf |-> FALSE, shlOvf |-> FALSE]
  /\ pc' = "loop"
  /\ UNCHANGED <<fn, arg, ret>>

\* multiplicand >>= 1 (line 56).
ShiftMultiplicand(l) ==
  IF l.shr = "sar" THEN Sar32(l.multiplicand) ELSE Shr1(l.multiplicand)

\* One execution of the loop body, lines 48-62.
muldivQR_body(l) ==
  LET bit == Bit(l.multiplicand, 0) = 1
      q1 == IF bit THEN Add32(l.quotient, l.qn) ELSE l.quotient
      r1 == IF bit THEN Add32(l.remainder, l.rn) ELSE l.remainder
      norm == bit /\ BLe(l.divisor, r1)
      m2 == ShiftMultiplicand(l)
      qn1 == Shl32(l.qn)
      rn1 == Shl32(l.rn)
      normn == BLe(l.divisor, rn1)
  IN  [l EXCEPT
         !.quotient = IF norm THEN Add32(q1, One32) ELSE q1,
         !.remainder = IF norm THEN Sub32(r1, l.divisor) ELSE r1,
         !.multiplicand = m2,
         !.qn = IF normn THEN Add32(qn1, One32) ELSE qn1,
         !.rn = IF normn THEN Sub32(rn1, l.divisor) ELSE rn1,
         !.iters = @ + 1,
         !.addOvf = @ \/ (bit /\ (\/ Carry32(l.quotient, l.qn)
                                  \/ Carry32(l.remainder, l.rn)
                                  \/ (norm /\ Carry32(q1, One32)))),
         !.shlOvf = @ \/ (~IsZero(m2) /\ (\/ Carry32(l.qn, l.qn)
                                          \/ Carry32(l.rn, l.rn)
                                          \/ (normn /\ Carry32(qn1, One32))))]

\* Line 47 with multiplicand # 0, and the body.
muldivQR_loop ==
  /\ fn = "muldivQR" /\ pc = "loop"
  /\ ~IsZero(loc.multiplicand)
  /\ loc.iters < MaxIters
  /\ loc' = muldivQR_body(loc)
  /\ UNCHANGED <<fn, pc, arg, ret>>

\* Lines 65-70: rounding and the sign; the returned int32_t bit pattern.
muldivQR_result(l) ==
  LET q == IF BLt(Shr1(l.divisor), l.remainder)
           THEN Add32(l.quotient, One32) ELSE l.quotient
  IN  IF l.negative_flag = 1 THEN Neg32(q) ELSE q

\* Line 47 with multiplicand = 0, and lines 65-70.
muldivQR_return ==
  /\ fn = "muldivQR" /\ pc = "loop"
  /\ IsZero(loc.multiplicand)
  /\ ret' = muldivQR_result(loc)
  /\ pc' = "done"
  /\ UNCHANGED <<fn, arg, loc>>

(***************************************************************************)
(* int_sqrt (lines 151-189)                                                *)
(***************************************************************************)

\* Small arguments 0..MaxSmall are tried for every routine.
MaxSmall == 40

\* x * x for a uint16_t x, as a uint32_t.
Square16(x) == BMul(Bytes(x, 2), Bytes(x, 2))

SqrtRoots ==
  { 15, 16, 17, 181, 182, 255, 256, 257, 4095, 4096, 4097,
    32768, 46340, 46341, 65280, 65520, 65534, 65535 }

SqrtArgs ==
  { U32(0, n) : n \in 0..MaxSmall }
    \cup { Square16(x) : x \in SqrtRoots }
    \cup { Sub32(Square16(x), One32) : x \in SqrtRoots }
    \cup { Add32(Square16(x), One32) : x \in SqrtRoots }
    \cup { U32(65535, 65535), U32(65535, 0), U32(32768, 0), U32(255, 65535),
           U32(256, 0), U32(1, 0), U32(0, 65535) }

\* Lines 152-157 and the initialisation of the first loop (line 159).
int_sqrt_entry ==
  /\ fn = "int_sqrt" /\ pc = "entry"
  /\ loc' = [a |-> arg.a,
             b |-> Val(SubSeq(arg.a, 3, 4)),
             c |-> (Val(SubSeq(arg.a, 3, 4)) \div 256) % 256,
             x |-> 0, z |-> 0, i |-> 0, j |-> 8]
  /\ pc' = "loop1"
  /\ UNCHANGED <<fn, arg, ret>>

\* Lines 160-165 and j >>= 1: the trial square is a uint8_t.
int_sqrt_body1(l) ==
  LET z1 == BitOr(l.z, l.j)
      y2 == (z1 * z1) % 256
  IN  [l EXCEPT !.z = IF y2 > l.c THEN BitXor(z1, l.j) ELSE z1,
                !.j = l.j \div 2]

\* Lines 170-175 and i >>= 1: the trial square is a uint16_t.
int_sqrt_body2(l) ==
  LET x1 == BitOr(l.x, l.i)
      y2 == (x1 * x1) % 65536
  IN  [l EXCEPT !.x = IF y2 > l.b THEN BitXor(x1, l.i) ELSE x1,
                !.i = l.i \div 2]

\* The third loop with the test y2 >= a in place of y2 > a.
int_sqrt_body3_ge(l) ==
  LET x1 == BitOr(l.x, l.i)
      y2 == Square16(x1)
  IN  [l EXCEPT !.x = IF BLe(l.a, y2) THEN BitXor(x1, l.i) ELSE x1,
                !.i = l.i \div 2]

\* Lines 180-185 and i >>= 1: the trial square is a uint32_t.
int_sqrt_body3(l) ==
  LET x1 == BitOr(l.x, l.i)
      y2 == Square16(x1)
  IN  [l EXCEPT !.x = IF BLt(l.a, y2) THEN BitXor(x1, l.i) ELSE x1,
                !.i = l.i \div 2]

int_sqrt_loop1 ==
  /\ fn = "int_sqrt" /\ pc = "loop1" /\ loc.j # 0
  /\ loc' = int_sqrt_body1(loc)
  /\ UNCHANGED <<fn, pc, arg, ret>>

\* Line 168 and the initialisation of the second loop (line 169).
int_sqrt_widen1 ==
  /\ fn = "int_sqrt" /\ pc = "loop1" /\ loc.j = 0
  /\ loc' = [loc EXCEPT !.x = (loc.z * 16) % 65536, !.i = 8]
  /\ pc' = "loop2"
  /\ UNCHANGED <<fn, arg, ret>>

int_sqrt_loop2 ==
  /\ fn = "int_sqrt" /\ pc = "loop2" /\ loc.i # 0
  /\ loc' = int_sqrt_body2(loc)
  /\ UNCHANGED <<fn, pc, arg, ret>>

\* Line 178 and the initialisation of the third loop (line 179).
int_sqrt_widen2 ==
  /\ fn = "int_sqrt" /\ pc = "loop2" /\ loc.i = 0
  /\ loc' = [loc EXCEPT !.x = (loc.x * 256) % 65536, !.i = 128]
  /\ pc' = "loop3"
  /\ UNCHANGED <<fn, arg, ret>>

int_sqrt_loop3 ==
  /\ fn = "int_sqrt" /\ pc = "loop3" /\ loc.i # 0
  /\ loc' = int_sqrt_body3(loc)
  /\ UNCHANGED <<fn, pc, arg, ret>>

\* Line 188.
int_sqrt_return ==
  /\ fn = "int_sqrt" /\ pc = "loop3" /\ loc.i = 0
  /\ ret' = loc.x
  /\ pc' = "done"
  /\ UNCHANGED <<fn, arg, loc>>

(***************************************************************************)
(* int_inv_sqrt (lines 198-227)                                            *)
(***************************************************************************)

InvSqrtArgs ==
  (1..MaxSmall)
    \cup { 63, 64, 65, 255, 256, 257, 1000, 4095, 4096, 4097, 16383, 16384,
           16385, 21845, 21846, 32767, 32768, 32769, 40000, 65534, 65535 }

\* The reciprocal taken of 0x10000 in place of 0xFFFF.
InvSqrtQ_0x10000(a) == (65536 \div a) * 256

\* Line 205: 0xFFFF / a is at most 16 bits wide, q at most 24.
InvSqrtQ(a) == (65535 \div a) * 256

\* Lines 203-205 and the initialisation of the first loop (line 207).
int_inv_sqrt_entry ==
  /\ fn = "int_inv_sqrt" /\ pc = "entry"
  /\ loc' = [a |-> arg.a, z |-> 0, i |-> 128, x |-> 0, j |-> 0,
             q |-> InvSqrtQ(arg.a)]
  /\ pc' = "loop1"
  /\ UNCHANGED <<fn, arg, ret>>

\* Lines 208-213 and i >>= 1: the trial square is a uint16_t.
int_inv_sqrt_body1(l) ==
  LET z1 == BitOr(l.z, l.i)
      y == (z1 * z1) % 65536
  IN  [l EXCEPT !.z = IF y > l.q \div 256 THEN BitXor(z1, l.i) ELSE z1,
                !.i = l.i \div 2]

\* Lines 218-223 and j >>= 1: the trial square is a uint32_t.
int_inv_sqrt_body2(l) ==
  LET x1 == BitOr(l.x, l.j)
      y == x1 * x1
  IN  [l EXCEPT !.x = IF y > l.q THEN BitXor(x1, l.j) ELSE x1,
                !.j = l.j \div 2]

int_inv_sqrt_loop1 ==
  /\ fn = "int_inv_sqrt" /\ pc = "loop1" /\ loc.i # 0
  /\ loc' = int_inv_sqrt_body1(loc)
  /\ UNCHANGED <<fn, pc, arg, ret>>

\* Line 216 and the initialisation of the second loop (line 217).
int_inv_sqrt_widen ==
  /\ fn = "int_inv_sqrt" /\ pc = "loop1" /\ loc.i = 0
  /\ loc' = [loc EXCEPT !.x = (loc.z * 16) % 65536, !.j = 8]
  /\ pc' = "loop2"
  /\ UNCHANGED <<fn, arg, ret>>

int_inv_sqrt_loop2 ==
  /\ fn = "int_inv_sqrt" /\ pc = "loop2" /\ loc.j # 0
  /\ loc' = int_inv_sqrt_body2(loc)
  /\ UNCHANGED <<fn, pc, arg, ret>>

\* Line 226.
int_inv_sqrt_return ==
  /\ fn = "int_inv_sqrt" /\ pc = "loop2" /\ loc.j = 0
  /\ ret' = loc.x
  /\ pc' = "done"
  /\ UNCHANGED <<fn, arg, loc>>

(***************************************************************************)
(* msbloc (lines 235-244)                                                  *)
(***************************************************************************)

\* v & c on uint32_t.
And32(a, b) ==
  <<BitAnd(a[1], b[1]), BitAnd(a[2], b[2]), BitAnd(a[3], b[3]), BitAnd(a[4], b[4])>>

\* The uint32_t 2^k, k in 0..31.
Bit32(k) == Bytes(0, k \div 8) \o <<2 ^ (k % 8)>> \o Bytes(0, 3 - k \div 8)

MsblocArgs ==
  { U32(0, n) : n \in 0..MaxSmall }
    \cup { Bit32(k) : k \in 0..31 }
    \cup { Sub32(Bit32(k), One32) : k \in 0..31 }
    \cup { Add32(Bit32(k), One32) : k \in 0..31 }

\* The loop started at i = 32.
msbloc_init_off(v) == [v |-> v, i |-> 32, c |-> U32(32768, 0)]

\* The initialisation of the loop, line 238: i = 31, c = 0x80000000.
msbloc_init(v) == [v |-> v, i |-> 31, c |-> U32(32768, 0)]

msbloc_entry ==
  /\ fn = "msbloc" /\ pc = "entry"
  /\ loc' = msbloc_init(arg.v)
  /\ pc' = "loop"
  /\ UNCHANGED <<fn, arg, ret>>

\* Lines 238-242 with i # 0: return i when bit i of v is set, else go on
\* to the next lower bit.
msbloc_loop ==
  /\ fn = "msbloc" /\ pc = "loop" /\ loc.i # 0
  /\ IF ~IsZero(And32(loc.v, loc.c))
     THEN /\ ret' = loc.i
          /\ pc' = "done"
          /\ UNCHANGED loc
     ELSE /\ loc' = [loc EXCEPT !.c = Shr1(loc.c), !.i = loc.i - 1]
          /\ UNCHANGED <<pc, ret>>
  /\ UNCHANGED <<fn, arg>>

\* Line 243: the loop ended at i = 0 without testing bit 0.
msbloc_return ==
  /\ fn = "msbloc" /\ pc = "loop" /\ loc.i = 0
  /\ ret' = 0
  /\ pc' = "done"
  /\ UNCHANGED <<fn, arg, loc>>

(***************************************************************************)
(* approx_distance_3 (lines 112-141)                                       *)
(***************************************************************************)

\* a * k on uint32_t, for a constant k < 2^16.
Mul32(a, k) == Trunc(BMul(a, Bytes(k, 2)), 4)

\* a >> 10 on uint32_t.
Shr10(a) == Shr1(Shr1(Trunc(Tail(a), 4)))

DistValues == { U32(0, n) : n \in {0, 1, 2, 3, 4, 5, 7, 10, 100, 1000} }

\* The routine, as the code ranks its arguments: after lines 115-121 min
\* holds the larger and med the smaller of dx and dy.
approx_distance_3(dx, dy, dz) ==
  LET min0 == IF BLt(dx, dy) THEN dy ELSE dx
      med0 == IF BLt(dx, dy) THEN dx ELSE dy
      max == IF BLt(dz, min0) THEN med0 ELSE IF BLt(dz, med0) THEN med0 ELSE dz
      med == IF BLt(dz, min0) THEN min0 ELSE IF BLt(dz, med0) THEN dz ELSE med0
      min == IF BLt(dz, min0) THEN dz ELSE min0
      approx0 == Add32(Add32(Mul32(max, 860), Mul32(med, 851)), Mul32(min, 520))
      approx1 == IF BLt(max, Shl32(med)) THEN Sub32(approx0, Mul32(max, 294))
                 ELSE approx0
      approx2 == IF BLt(max, Shl32(Shl32(min))) THEN Sub32(approx1, Mul32(max, 113))
                 ELSE approx1
      approx3 == IF BLt(med, Shl32(Shl32(min))) THEN Sub32(approx2, Mul32(med, 40))
                 ELSE approx2
  IN  Shr10(Add32(approx3, Bytes(512, 4)))

approx_distance_3_call ==
  /\ fn = "approx_distance_3" /\ pc = "entry"
  /\ ret' = approx_distance_3(arg.dx, arg.dy, arg.dz)
  /\ pc' = "done"
  /\ UNCHANGED <<fn, arg, loc>>

(***************************************************************************)
(* acc_ramp_len (lines 258-261)                                            *)
(*                                                                         *)
(* ACCELERATION is a configuration macro of the build; it is drawn with    *)
(* the arguments.  The caller calls the routine once for each of two       *)
(* feedrates, the lower first, with the same steps_per_m; ret collects     *)
(* the two results.                                                        *)
(***************************************************************************)

Feedrates ==
  { U32(0, 0), U32(0, 1), U32(0, 60), U32(0, 255), U32(0, 256), U32(0, 1000),
    U32(0, 6000), U32(0, 65535), U32(1, 0), U32(1, 1), U32(1, 34464),
    U32(65535, 65535) }

\* 2000, 80000 and 4096000 steps/m.
StepsPerM == { U32(0, 2000), U32(1, 14464), U32(62, 32768) }

Accelerations == { U32(0, 10), U32(0, 1000), U32(0, 10000) }

\* (uint32_t)7200000UL * ACCELERATION / steps_per_m, the divisor of line 260.
RampDivisor(steps_per_m, ACCELERATION) ==
  Div32(Trunc(BMul(U32(109, 56576), ACCELERATION), 4), steps_per_m)

\* The product feedrate * feedrate kept to 16 bits.
acc_ramp_len_narrow(feedrate, steps_per_m, ACCELERATION) ==
  Div32(Trunc(Trunc(BMul(feedrate, feedrate), 2), 4),
        RampDivisor(steps_per_m, ACCELERATION))

\* Lines 259-260: the product feedrate * feedrate is a uint32_t.
acc_ramp_len(feedrate, steps_per_m, ACCELERATION) ==
  Div32(Trunc(BMul(feedrate, feedrate), 4),
        RampDivisor(steps_per_m, ACCELERATION))

\* Two feedrates in ascending order, and a non-zero divisor.
RampArgs ==
  { a \in [feedrate : Feedrates \X Feedrates, steps_per_m : StepsPerM,
           ACCELERATION : Accelerations] :
      /\ BLe(a.feedrate[1], a.feedrate[2])
      /\ ~IsZero(RampDivisor(a.steps_per_m, a.ACCELERATION)) }

acc_ramp_len_call ==
  /\ fn = "acc_ramp_len" /\ pc = "entry"
  /\ ret' = Append(ret, acc_ramp_len(arg.feedrate[Len(ret) + 1],
                                     arg.steps_per_m, arg.ACCELERATION))
  /\ pc' = IF Len(ret) = 1 THEN "done" ELSE "entry"
  /\ UNCHANGED <<fn, arg, loc>>

(***************************************************************************)
(* int_sqr (lines 266-268)                                                 *)
(*                                                                         *)
(* The result, an int64_t, is the 8 bytes of its two's complement.         *)
(***************************************************************************)

IntSqrArgs ==
  { U32(0, n) : n \in 0..MaxSmall }
    \cup { U32(0, 46340), U32(0, 46341), U32(0, 65535), U32(1, 0),
           U32(3, 3392), U32(32767, 65535), INT32_MIN,
           U32(65535, 65535), U32(65535, 65534), U32(65535, 19195),
           U32(65532, 62144) }

\* a * a, exact.
ExactSquare(a) == BMul(Abs32(a), Abs32(a))

\* int32_t to int64_t.
SignExtend(v) == v \o (IF IsNeg32(v) THEN <<255, 255, 255, 255>> ELSE <<0, 0, 0, 0>>)

\* Line 267: a * a is an int32_t multiplication, converted to int64_t
\* afterwards.  A product above INT32_MAX overflows (undefined behaviour):
\* the build either multiplies in 32 bits and sign-extends the wrapped
\* product, or multiplies in the width of the result.
int_sqr(a) ==
  IF BLt(ExactSquare(a), INT32_MIN) THEN { SignExtend(Trunc(ExactSquare(a), 4)) }
  ELSE { SignExtend(Trunc(ExactSquare(a), 4)), ExactSquare(a) }

int_sqr_call ==
  /\ fn = "int_sqr" /\ pc = "entry"
  /\ ret' \in int_sqr(arg.a)
  /\ pc' = "done"
  /\ UNCHANGED <<fn, arg, loc>>

(***************************************************************************)
(* The calls                                                               *)
(***************************************************************************)

Routines ==
  { "muldivQR", "approx_distance_3", "int_sqrt", "int_inv_sqrt", "msbloc",
    "acc_ramp_len", "int_sqr" }

Args(f) ==
  CASE f = "muldivQR" -> MuldivArgs
    [] f = "int_sqrt" -> [a : SqrtArgs]
    [] f = "int_inv_sqrt" -> [a : InvSqrtArgs]
    [] f = "msbloc" -> [v : MsblocArgs]
    [] f = "approx_distance_3" -> [dx : DistValues, dy : DistValues, dz : DistValues]
    [] f = "acc_ramp_len" -> RampArgs
    [] f = "int_sqr" -> [a : IntSqrArgs]

Init ==
  /\ fn \in Routines
  /\ arg \in Args(fn)
  /\ pc = "entry"
  /\ loc = <<>>
  /\ ret = <<>>

Next ==
  \/ muldivQR_entry
  \/ muldivQR_loop
  \/ muldivQR_return
  \/ int_sqrt_entry
  \/ int_sqrt_loop1
  \/ int_sqrt_widen1
  \/ int_sqrt_loop2
  \/ int_sqrt_widen2
  \/ int_sqrt_loop3
  \/ int_sqrt_return
  \/ int_inv_sqrt_entry
  \/ int_inv_sqrt_loop1
  \/ int_inv_sqrt_widen
  \/ int_inv_sqrt_loop2
  \/ int_inv_sqrt_return
  \/ msbloc_entry
  \/ msbloc_loop
  \/ msbloc_return
  \/ approx_distance_3_call
  \/ acc_ramp_len_call
  \/ int_sqr_call

Spec == Init /\ [][Next]_vars

(***************************************************************************)
(* Properties of muldivQR                                                  *)
(***************************************************************************)

\* |multiplicand * multiplier| of the call, exact (9 bytes).
MuldivProduct == BMul(Abs32(arg.multiplicand), Multiplier(arg))

\* multiplicand * multiplier is an int32_t: at most 2^31 - 1, at least -2^31.
ProductFits ==
  IF IsNeg32(arg.multiplicand) THEN BLe(MuldivProduct, INT32_MIN)
  ELSE BLt(MuldivProduct, INT32_MIN)

\* The exact quotient multiplicand * multiplier / divisor rounds to an
\* int32_t: 2 * |product| < (2^32 - 1) * divisor.
ResultFits ==
  BLt(BAdd(MuldivProduct, MuldivProduct), BMul(U32(65535, 65535), arg.divisor))

\* r (an int32_t bit pattern) is an integer nearest to
\* multiplicand * multiplier / divisor, with the sign of the multiplicand:
\* 2 * | |r| * divisor - |product| | <= divisor.
Nearest(r) ==
  LET rd == BMul(Abs32(r), arg.divisor)
      diff == IF BLe(rd, MuldivProduct) THEN BSub(MuldivProduct, rd, 9)
              ELSE BSub(rd, MuldivProduct, 9)
  IN  /\ BLe(BAdd(diff, diff), arg.divisor)
      /\ IsZero(r) \/ (IsNeg32(r) <=> IsNeg32(arg.multiplicand))

\* The loop can no longer end: multiplicand is non-zero and the shift of
\* line 56 leaves it as it is.
Diverges ==
  /\ fn = "muldivQR" /\ pc = "loop"
  /\ ~IsZero(loc.multiplicand)
  /\ ShiftMultiplicand(loc) = loc.multiplicand

\* A call whose product fits returns an integer nearest to the exact
\* quotient (so within 1 of it under any rounding of ties).
MuldivReturnsNearest ==
  (fn = "muldivQR" /\ pc = "done" /\ ProductFits) => Nearest(ret)

\* C1: for every multiplicand, multiplier and divisor > 0 whose product
\* fits in 32 bits, muldivQR returns, and what it returns is
\* multiplicand * multiplier / divisor rounded to a nearest integer.
C1_Claim ==
  (fn = "muldivQR" /\ ProductFits) => MuldivReturnsNearest /\ ~Diverges

\* C6: muldivQR terminates for every multiplicand, INT32_MIN included, and
\* its loop body executes at most 32 times.
C6_Claim ==
  (fn = "muldivQR" /\ pc = "loop") => loc.iters <= 32 /\ ~Diverges

\* C10: in a call whose operands and true result fit in 32 bits, no
\* addition into quotient or remainder and no doubling of qn or rn that is
\* read again leaves the uint32_t range, and remainder < divisor and
\* rn < divisor after every normalisation.  (Stated for the multiplicands
\* other than INT32_MIN, whose negation is undefined.)
C10_Claim ==
  (/\ fn = "muldivQR" /\ pc \in {"loop", "done"}
   /\ ResultFits /\ arg.multiplicand # INT32_MIN) =>
    /\ ~loc.addOvf
    /\ ~loc.shlOvf
    /\ BLt(loc.remainder, loc.divisor)
    /\ BLt(loc.rn, loc.divisor)

(***************************************************************************)
(* Properties of int_sqrt, int_inv_sqrt and msbloc                         *)
(***************************************************************************)

\* n * n for an integer n <= 65536, exact.
Square(n) == BMul(Bytes(n, 3), Bytes(n, 3))

\* C2: int_sqrt(a) is the floor of the square root of a:
\* ret * ret <= a < (ret + 1) * (ret + 1), for every a up to 2^32 - 1.
C2_IntSqrtFloor ==
  (fn = "int_sqrt" /\ pc = "done") =>
    /\ BLe(Square(ret), arg.a)
    /\ BLt(arg.a, Square(ret + 1))

C2_Witness ==
  fn = "int_sqrt" /\ pc = "done" /\ arg.a = U32(65535, 65535) /\ ret = 65535

\* C3: int_inv_sqrt(a) is 4096 / sqrt(a) rounded down:
\* ret * ret * a <= 4096 * 4096 < (ret + 1) * (ret + 1) * a.
C3_Claim ==
  (fn = "int_inv_sqrt" /\ pc = "done") =>
    /\ ret * ret * arg.a <= 4096 * 4096
    /\ 4096 * 4096 < (ret + 1) * (ret + 1) * arg.a

Pow2(k) == Bytes(0, k \div 8) \o <<2 ^ (k % 8)>> \o Bytes(0, 4 - k \div 8)

C4_Claim ==
  (fn = "approx_distance_3" /\ pc = "done") =>
    /\ ret = approx_distance_3(arg.dx, arg.dz, arg.dy)
    /\ ret = approx_distance_3(arg.dy, arg.dx, arg.dz)
    /\ ret = approx_distance_3(arg.dy, arg.dz, arg.dx)
    /\ ret = approx_distance_3(arg.dz, arg.dx, arg.dy)
    /\ ret = approx_distance_3(arg.dz, arg.dy, arg.dx)

\* C5: int_sqr(a) is the exact square of a, for every int32_t a.
C5_Claim ==
  (fn = "int_sqr" /\ pc = "done") => ret = ExactSquare(arg.a)

\* C7: for feedrates f1 <= f2 and the same steps_per_m and ACCELERATION,
\* acc_ramp_len(f1) <= acc_ramp_len(f2), whatever the two feedrates.
C7_Claim ==
  (fn = "acc_ramp_len" /\ pc = "done") => BLe(ret[1], ret[2])

\* C7, amended: the same for feedrates up to 65535, whose square is a
\* uint32_t.
C7_RampMonotoneBelow65536 ==
  (fn = "acc_ramp_len" /\ pc = "done" /\ BLe(arg.feedrate[2], U32(0, 65535))) =>
    BLe(ret[1], ret[2])

C7_Witness ==
  /\ fn = "acc_ramp_len" /\ pc = "done"
  /\ arg.feedrate = <<U32(0, 6000), U32(0, 65535)>>
  /\ BLt(ret[1], ret[2])

====
